---- MODULE Spec2Model ----
(***************************************************************************)
(* Composite task lifecycle of the queue: ChainTemplate and GroupTemplate  *)
(* (src/lib/chain_template.js).  The store (task hashes, the waiting/idle/ *)
(* finished sets, the per-pool command sets) is the shared state; every    *)
(* worker runs command handlers whose store round-trips (awaits) are the   *)
(* points where other workers interleave.                                  *)
(***************************************************************************)
EXTENDS Integers, Sequences, FiniteSets, Bags, TLC

\* ------------------------------------------------------------------ bounds
NumWorkers == 2
MaxDeletes == 1

Tasks   == 1..5
NoTask  == 0

\* ------------------------------------------------------- JavaScript values
\* A JavaScript value: a primitive (tag, p = its literal) or an array of values.
JSUndefined == [tag |-> "undefined", p |-> "",  items |-> <<>>]
JSNull      == [tag |-> "null",      p |-> "",  items |-> <<>>]
JSNum(n)    == [tag |-> "number",    p |-> n,   items |-> <<>>]
JSBool(b)   == [tag |-> "boolean",   p |-> b,   items |-> <<>>]
JSStr(s)    == [tag |-> "string",    p |-> s,   items |-> <<>>]
JSArr(vs)   == [tag |-> "array",     p |-> "",  items |-> vs]
\* serializeError(err): the plain object of an error, known here by its message.
JSError(m)  == [tag |-> "object",    p |-> m,   items |-> <<>>]

\* The primitives that occur in this model (task results, argument values, states).
Prims ==
  { JSNull, JSNum("0"), JSNum("1"), JSNum("7"), JSBool("false"), JSBool("true"),
    JSStr(""), JSStr("a"), JSStr("waiting"), JSStr("idle"), JSStr("finished") }

\* JavaScript truthiness, as tested by `if (command.data.result)`.
Truthy(v) ==
  CASE v.tag = "undefined" -> FALSE
    [] v.tag = "null"      -> FALSE
    [] v.tag = "number"    -> v.p # "0"
    [] v.tag = "boolean"   -> v.p = "true"
    [] v.tag = "string"    -> v.p # ""
    [] OTHER               -> TRUE

\* `typeof v !== 'undefined'`
Defined(v) == v.tag # "undefined"

\* ------------------------------------------------------------------- JSON
\* A JSON text is a sequence of tokens; NIL is the store's nil reply (no text).
NIL == <<>>

PrimToken(v) ==
  CASE v.tag = "null"      -> "null"
    [] v.tag = "undefined" -> "null"
    [] v.tag = "string"    -> "\"" \o v.p \o "\""
    [] v.tag = "object"    -> "{\"message\":\"" \o v.p \o "\"}"
    [] OTHER               -> v.p

RECURSIVE StringifyItems(_, _)
RECURSIVE Stringify(_)
\* JSON.stringify of a value inside a document (undefined array items become null).
Stringify(v) ==
  IF v.tag = "array"
    THEN <<"[">> \o StringifyItems(v.items, 1) \o <<"]">>
    ELSE <<PrimToken(v)>>
StringifyItems(vs, i) ==
  IF i > Len(vs) THEN <<>>
  ELSE (IF i > 1 THEN <<",">> ELSE <<>>) \o Stringify(vs[i]) \o StringifyItems(vs, i + 1)

\* JSON.stringify(v): undefined has no JSON text (an object key holding it is omitted).
JSONstringify(v) == IF Defined(v) THEN Stringify(v) ELSE NIL

RECURSIVE ParseValue(_)
RECURSIVE ParseItems(_, _)
\* Recursive-descent parse of the first value of a token sequence: [v, rest].
ParseValue(toks) ==
  IF Head(toks) = "["
    THEN ParseItems(Tail(toks), <<>>)
    ELSE [v    |-> CHOOSE q \in Prims : PrimToken(q) = Head(toks),
          rest |-> Tail(toks)]
ParseItems(toks, acc) ==
  IF Head(toks) = "]" THEN [v |-> JSArr(acc), rest |-> Tail(toks)]
  ELSE IF Head(toks) = "," THEN ParseItems(Tail(toks), acc)
  ELSE LET r == ParseValue(toks) IN ParseItems(r.rest, Append(acc, r.v))

\* JSON.parse(text); a nil reply parses as null (JSON.parse(null) === null), and
\* a key missing from a parsed object reads as undefined (see CmdResult).
JSONparse(text) == IF text = NIL THEN JSNull ELSE ParseValue(text).v

\* --------------------------------------------------------------- task trees
\* What prepare() leaves behind: the kind of every task, the children of every
\* composite in list order, the parent link stamped by setParent, the pool, the
\* args given at construction, the progress total (summed over children), and
\* for every leaf the results its user function may return.  `mortal` holds the
\* tasks whose record may be removed while the tree runs.
Tree(kind, children, parent, pool, args, total, returns, mortal) ==
  [kind |-> kind, children |-> children, parent |-> parent, pool |-> pool,
   args |-> args, total |-> total, returns |-> returns, mortal |-> mortal]

NoArgs    == [t \in Tasks |-> <<>>]
NoReturns == [t \in Tasks |-> {}]

\* chain([A, B, C]) with no parent; any child may be removed
ChainOfThree ==
  Tree((1 :> "chain") @@ (2 :> "leaf") @@ (3 :> "leaf") @@ (4 :> "leaf") @@ (5 :> "none"),
       (1 :> <<2, 3, 4>>) @@ [t \in Tasks |-> <<>>],
       (2 :> 1) @@ (3 :> 1) @@ (4 :> 1) @@ [t \in Tasks |-> NoTask],
       [t \in Tasks |-> IF t = 3 THEN "heavy" ELSE "default"],
       (3 :> <<JSNum("1")>>) @@ NoArgs,
       (1 :> 3) @@ [t \in Tasks |-> IF t = 5 THEN 0 ELSE 1],
       (2 :> {JSNum("7"), JSNum("0"), JSUndefined}) @@ (3 :> {JSStr("a"), JSStr("")})
         @@ (4 :> {JSNum("7"), JSBool("false"), JSUndefined}) @@ NoReturns,
       {2, 3, 4})

\* group([A, B]) with no parent; any child may be removed
GroupOfTwo ==
  Tree((1 :> "group") @@ (2 :> "leaf") @@ (3 :> "leaf") @@ (4 :> "none") @@ (5 :> "none"),
       (1 :> <<2, 3>>) @@ [t \in Tasks |-> <<>>],
       (2 :> 1) @@ (3 :> 1) @@ [t \in Tasks |-> NoTask],
       [t \in Tasks |-> IF t = 3 THEN "heavy" ELSE "default"],
       NoArgs,
       (1 :> 2) @@ [t \in Tasks |-> IF t \in {2, 3} THEN 1 ELSE 0],
       (2 :> {JSStr("a"), JSUndefined}) @@ (3 :> {JSNum("7"), JSNull}) @@ NoReturns,
       {2, 3})

\* chain([group([X, Y]), B]); the group or X may be removed
ChainOfGroup ==
  Tree((1 :> "chain") @@ (2 :> "group") @@ (3 :> "leaf") @@ (4 :> "leaf") @@ (5 :> "leaf"),
       (1 :> <<2, 3>>) @@ (2 :> <<4, 5>>) @@ [t \in Tasks |-> <<>>],
       (2 :> 1) @@ (3 :> 1) @@ (4 :> 2) @@ (5 :> 2) @@ [t \in Tasks |-> NoTask],
       [t \in Tasks |-> IF t = 2 THEN "heavy" ELSE "default"],
       (3 :> <<JSStr("a")>>) @@ NoArgs,
       (1 :> 3) @@ (2 :> 2) @@ [t \in Tasks |-> 1],
       (3 :> {JSNum("7"), JSUndefined}) @@ (4 :> {JSNum("1")}) @@ (5 :> {JSNum("0")})
         @@ NoReturns,
       {2, 4})

\* group([chain([X, Y]), B]); the chain or X may be removed
GroupOfChain ==
  Tree((1 :> "group") @@ (2 :> "chain") @@ (3 :> "leaf") @@ (4 :> "leaf") @@ (5 :> "leaf"),
       (1 :> <<2, 3>>) @@ (2 :> <<4, 5>>) @@ [t \in Tasks |-> <<>>],
       (2 :> 1) @@ (3 :> 1) @@ (4 :> 2) @@ (5 :> 2) @@ [t \in Tasks |-> NoTask],
       [t \in Tasks |-> IF t = 2 THEN "heavy" ELSE "default"],
       NoArgs,
       (1 :> 3) @@ (2 :> 2) @@ [t \in Tasks |-> 1],
       (3 :> {JSStr("a")}) @@ (4 :> {JSNum("7"), JSNum("0")}) @@ (5 :> {JSBool("true")})
         @@ NoReturns,
       {2, 4})

\* chain([B, group([X, Y])]): the last child of the chain is a composite, and
\* may be removed
ChainEndingInGroup ==
  Tree((1 :> "chain") @@ (2 :> "leaf") @@ (3 :> "group") @@ (4 :> "leaf") @@ (5 :> "leaf"),
       (1 :> <<2, 3>>) @@ (3 :> <<4, 5>>) @@ [t \in Tasks |-> <<>>],
       (2 :> 1) @@ (3 :> 1) @@ (4 :> 3) @@ (5 :> 3) @@ [t \in Tasks |-> NoTask],
       [t \in Tasks |-> IF t = 3 THEN "heavy" ELSE "default"],
       NoArgs,
       (1 :> 3) @@ (3 :> 2) @@ [t \in Tasks |-> 1],
       (2 :> {JSNum("7")}) @@ (4 :> {JSStr("a")}) @@ (5 :> {JSNum("0"), JSUndefined})
         @@ NoReturns,
       {3})

Trees == {ChainOfThree, GroupOfTwo, ChainOfGroup, GroupOfChain, ChainEndingInGroup}

Pools == {"default", "heavy"}

\* ------------------------------------------------------------------- state
VARIABLES
  tree,             \* the prepared task tree (fixed after prepare)
  rec,              \* `${prefix}${id}`: the task hashes
  waiting,          \* `${prefix}waiting`
  idle,             \* `${prefix}idle`
  finished,         \* `${prefix}finished`
  commands,         \* `${prefix}${pool}:commands`
  commands_locked,  \* `${prefix}${pool}:commands_locked`
  wk,               \* the workers that are in a handler (a bag: workers are alike)
  events,           \* per task: number of `task:end:${id}` events emitted
  errors,           \* per task: number of queue 'error' events emitted for it
  log,              \* per task: the transactions of its handlers that succeeded
  thrown,           \* the handlers that threw: the command, and the child as read
  deletes,          \* number of task records deleted so far
  prep              \* the composite template under construction, in memory

vars == <<tree, rec, waiting, idle, finished, commands, commands_locked,
          wk, events, errors, log, thrown, deletes, prep>>

store == <<rec, waiting, idle, finished, commands, commands_locked>>

Range(f) == {f[i] : i \in DOMAIN f}

Kind(t)      == tree.kind[t]
Children(t)  == tree.children[t]
Composites   == {t \in Tasks : Kind(t) \in {"chain", "group"}}
Root         == CHOOSE t \in Tasks : tree.kind[t] # "none" /\ tree.parent[t] = NoTask

\* uid of a task, stamped into commands as `to_uid`
Uid(t) == 100 + t

\* Command.fromObject({ to, to_uid, type, data }).toJSON(): the canonical form.
\* data.id is NoTask and the texts are NIL where the key is absent from data.
Command(to, to_uid, type, id, result, error) ==
  [to |-> to, to_uid |-> to_uid, type |-> type,
   id |-> id, result |-> result, error |-> error]

NoCommand == Command(NoTask, 0, "none", NoTask, NIL, NIL)

\* command.data.result as the handler reads it off the parsed command
CmdResult(c) == IF c.result = NIL THEN JSUndefined ELSE JSONparse(c.result)

\* A task hash as first persisted: every serializable field, JSON-encoded.
FreshRecord(t) ==
  [exists |-> TRUE, uid |-> Uid(t),
   state |-> JSONstringify(JSStr("waiting")),
   children_finished |-> 0,
   args |-> JSONstringify(JSArr(tree.args[t])),
   result |-> NIL, error |-> NIL, progress |-> 0]

\* What is left of a hash once its key is deleted.
NoRecord ==
  [exists |-> FALSE, uid |-> 0, state |-> NIL, children_finished |-> 0,
   args |-> NIL, result |-> NIL, error |-> NIL, progress |-> 0]

\* A worker in a handler: the point it has reached (pc), the command, and the
\* handler's in-memory data: this.children_finished as read with the task (cf),
\* the child records it has read (raw) and the args it has computed (newArgs).
Handling(pc, c, cf) == [pc |-> pc, cmd |-> c, cf |-> cf, raw |-> <<>>, newArgs |-> NIL]

\* A field of a template object: Unset while nothing was assigned to it.
Unset  == <<>>
Set(v) == <<v>>

\* new ChainTemplate(queue, ...args) / new GroupTemplate(queue, ...args): the
\* children are taken from args[0] when it is a non-empty array whose first
\* element is a task (anything else in it is an argument; 0 stands for one).
\* `init` is what the template's init() will return: an array, or Unset.
Construct(kind, first, init) ==
  [kind |-> kind, init |-> init, phase |-> "constructed", id |-> NoTask,
   children_to_init |-> IF Len(first) > 0 /\ first[1] \in Tasks THEN first ELSE <<>>,
   children |-> Unset, children_finished |-> Unset, total |-> Unset, result |-> Unset,
   error |-> ""]

\* no template is under construction: the tree is prepared and persisted
Prepared ==
  [kind |-> "none", init |-> Unset, phase |-> "persisted", id |-> NoTask,
   children_to_init |-> <<>>,
   children |-> Unset, children_finished |-> Unset, total |-> Unset, result |-> Unset,
   error |-> ""]

Init ==
  /\ tree \in Trees
  /\ prep = Prepared
  /\ rec = [t \in Tasks |-> IF tree.kind[t] = "none" THEN NoRecord ELSE FreshRecord(t)]
  /\ waiting = {t \in Tasks : tree.kind[t] # "none"}
  /\ idle = {}
  /\ finished = {}
  /\ commands = [p \in Pools |->
                   IF p = tree.pool[Root]
                     THEN {Command(Root, Uid(Root), "activate", NoTask, NIL, NIL)}
                     ELSE {}]
  /\ commands_locked = [p \in Pools |-> {}]
  /\ wk = EmptyBag
  /\ events = [t \in Tasks |-> 0]
  /\ errors = [t \in Tasks |-> 0]
  /\ log = [t \in Tasks |-> <<>>]
  /\ thrown = {}
  /\ deletes = 0

\* ------------------------------------------------------------ transactions
\* The store as one value, so that a transaction can be applied to it whole.
Store == [rec |-> rec, waiting |-> waiting, idle |-> idle, finished |-> finished,
          commands |-> commands, commands_locked |-> commands_locked]

\* The store commands the handlers put in `exec`.
SRem(key, id)          == [cmd |-> "srem", key |-> key, id |-> id, field |-> "", val |-> 0]
SAdd(key, id)          == [cmd |-> "sadd", key |-> key, id |-> id, field |-> "", val |-> 0]
ZAddFinished(id)       == [cmd |-> "zadd", key |-> "finished", id |-> id, field |-> "", val |-> 0]
ZAddCommand(pool, c)   == [cmd |-> "zadd", key |-> pool, id |-> NoTask, field |-> "", val |-> c]
HSet(id, field, text)  == [cmd |-> "hset", key |-> "", id |-> id, field |-> field, val |-> text]
HIncrBy(id, field, n)  == [cmd |-> "hincrby", key |-> "", id |-> id, field |-> field, val |-> n]

\* One store command applied.  Scores (enqueue time, removal deadline) order the
\* members of a sorted set and decide nothing here: a sorted set is its member set.
\* Writing a field of a deleted hash creates the hash again, holding that field only.
ApplyOp(S, op) ==
  CASE op.cmd = "srem" /\ op.key = "waiting" -> [S EXCEPT !.waiting = @ \ {op.id}]
    [] op.cmd = "srem" /\ op.key = "idle"    -> [S EXCEPT !.idle = @ \ {op.id}]
    [] op.cmd = "sadd" /\ op.key = "idle"    -> [S EXCEPT !.idle = @ \cup {op.id}]
    [] op.cmd = "zadd" /\ op.key = "finished" -> [S EXCEPT !.finished = @ \cup {op.id}]
    [] op.cmd = "zadd" /\ op.key \in Pools   ->
         [S EXCEPT !.commands[op.key] = @ \cup {op.val}]
    [] op.cmd = "hset" ->
         [S EXCEPT !.rec[op.id] = [[@ EXCEPT ![op.field] = op.val] EXCEPT !.exists = TRUE]]
    [] op.cmd = "hincrby" ->
         [S EXCEPT !.rec[op.id] =
            [[@ EXCEPT ![op.field] = @ + op.val] EXCEPT !.exists = TRUE]]

RECURSIVE ApplyAll(_, _, _)
ApplyAll(S, ops, i) ==
  IF i > Len(ops) THEN S ELSE ApplyAll(ApplyOp(S, ops[i]), ops, i + 1)

\* The store commands the handlers put in `validate`, each with what it expects.
ZRemLocked(pool, c)    == [cmd |-> "zrem", key |-> pool, id |-> NoTask, field |-> "", val |-> c]
HGet(id, field)        == [cmd |-> "hget", key |-> "", id |-> id, field |-> field, val |-> 0]
Expect(expected, op)   == [expected |-> expected, op |-> op]

\* a transaction that does not take the command out of `commands_locked`
TransactionNoLock(pool, command, id, state, exec) ==
  [id       |-> id,
   command  |-> command,
   validate |-> << Expect(JSONstringify(JSStr(state)), HGet(id, "state")) >>,
   exec     |-> exec]

\* a transaction that checks the state before it takes the command
TransactionStateFirst(pool, command, id, state, exec) ==
  [id       |-> id,
   command  |-> command,
   validate |-> << Expect(JSONstringify(JSStr(state)), HGet(id, "state")),
                   Expect(<<"1">>, ZRemLocked(pool, command)) >>,
   exec     |-> exec]

\* A handler's transaction: validate = [ 1, zrem commands_locked command ] and
\* [ JSON.stringify(state), hget id state ]; exec = the writes.
Transaction(pool, command, id, state, exec) ==
  [id       |-> id,
   command  |-> command,
   validate |-> << Expect(<<"1">>, ZRemLocked(pool, command)),
                   Expect(JSONstringify(JSStr(state)), HGet(id, "state")) >>,
   exec     |-> exec]

\* The reply of a validate command, as the text the script compares.
Reply(S, op) ==
  CASE op.cmd = "zrem" -> IF op.val \in S.commands_locked[op.key] THEN <<"1">> ELSE <<"0">>
    [] op.cmd = "hget" -> S.rec[op.id][op.field]

\* The store after a validate command has run: zrem removes what it finds.
After(S, op) ==
  CASE op.cmd = "zrem" -> [S EXCEPT !.commands_locked[op.key] = @ \ {op.val}]
    [] op.cmd = "hget" -> S

RECURSIVE RunScript(_, _, _)
\* The transaction script: the validate entries are run in order and each reply
\* is compared with what is expected; at the first that differs the script
\* returns 0, and only if all agree are the writes run and 1 returned.
RunScript(S, tx, i) ==
  IF i > Len(tx.validate) THEN [success |-> TRUE, store |-> ApplyAll(S, tx.exec, 1)]
  ELSE IF Reply(S, tx.validate[i].op) # tx.validate[i].expected
    THEN [success |-> FALSE, store |-> After(S, tx.validate[i].op)]
    ELSE RunScript(After(S, tx.validate[i].op), tx, i + 1)

\* `success`, the reply of evalAsync(transaction)
Validates(tx) == \E t \in {tx} : RunScript(Store, t, 1).success

\* evalAsync(transaction): the store after the script has run.  The transaction
\* and the script's outcome are each bound once, as values.
Eval(tx) ==
  \E t \in {tx} : \E S \in {RunScript(Store, t, 1).store} :
    /\ rec' = S.rec
    /\ waiting' = S.waiting
    /\ idle' = S.idle
    /\ finished' = S.finished
    /\ commands' = S.commands
    /\ commands_locked' = S.commands_locked

\* ------------------------------------------------------ reading task records
NullTask == [exists |-> FALSE, id |-> NoTask, uid |-> 0, pool |-> "", result |-> JSUndefined]

\* __getRawTask__(id): the deserialized record, or null when the hash is gone.
GetRawTask(t) ==
  IF rec[t].exists
    THEN [exists |-> TRUE, id |-> t, uid |-> rec[t].uid, pool |-> tree.pool[t],
          result |-> IF rec[t].result = NIL THEN JSUndefined ELSE JSONparse(rec[t].result)]
    ELSE NullTask

\* __getRawTasks__(ids): aligned with ids, null for the absent ones.
GetRawTasks(ids) == [i \in 1..Len(ids) |-> GetRawTask(ids[i])]

\* --------------------------------------------------------- worker bookkeeping
Busy          == BagToSet(wk)
This(w)       == w.cmd.to
ThisPool(w)   == tree.pool[This(w)]
ThisParent(w) == tree.parent[This(w)]
ThisTotal(w)  == tree.total[This(w)]
At(w, pc)     == w.pc = pc
Become(w, h)  == wk' = (wk (-) SetToBag({w})) (+) SetToBag({h})
Goto(w, pc)   == Become(w, [w EXCEPT !.pc = pc])
Return(w)     == wk' = wk (-) SetToBag({w})

Activate(to, to_uid) == Command(to, to_uid, "activate", NoTask, NIL, NIL)

\* A transaction that validated is appended to the log of the task it belongs to.
Logged(tx) ==
  \E t \in {tx} :
    log' = IF Validates(t) THEN [log EXCEPT ![t.id] = Append(@, t)] ELSE log

\* ------------------------------------------------- ChainTemplate: activate
\* await __getRawTask__(this.children[0])
ChainActivateGet(w) ==
  /\ At(w, "chain_activate")
  /\ Become(w, [w EXCEPT !.raw = <<GetRawTask(Children(This(w))[1])>>,
                         !.pc = "chain_activate_eval"])
  /\ UNCHANGED <<prep, tree, store, events, errors, log, thrown, deletes>>

\* the activate handler writing the state of the finishing transaction
ChainActivateExecFinished(id, rawChild) ==
  << SRem("waiting", id),
     SAdd("idle", id),
     HSet(id, "state", JSONstringify(JSStr("finished"))) >>
  \o (IF rawChild.exists
        THEN <<ZAddCommand(rawChild.pool, Activate(rawChild.id, rawChild.uid))>>
        ELSE <<>>)

ChainActivateExec(id, rawChild) ==
  << SRem("waiting", id),
     SAdd("idle", id),
     HSet(id, "state", JSONstringify(JSStr("idle"))) >>
  \o (IF rawChild.exists
        THEN <<ZAddCommand(rawChild.pool, Activate(rawChild.id, rawChild.uid))>>
        ELSE <<>>)

\* a chain activating every child at once, as a group does
ChainActivateAllTx(w) ==
  Transaction(ThisPool(w), w.cmd, This(w), "waiting",
              << SRem("waiting", This(w)),
                 SAdd("idle", This(w)),
                 HSet(This(w), "state", JSONstringify(JSStr("idle"))) >>
              \o [i \in 1..Len(Children(This(w))) |->
                    ZAddCommand(tree.pool[Children(This(w))[i]],
                                Activate(Children(This(w))[i], Uid(Children(This(w))[i])))])

ChainActivateTx(w) ==
  Transaction(ThisPool(w), w.cmd, This(w), "waiting",
              ChainActivateExec(This(w), w.raw[1]))

ChainActivateEval(w) ==
  /\ At(w, "chain_activate_eval")
  /\ Eval(ChainActivateTx(w))
  /\ Logged(ChainActivateTx(w))
  /\ Return(w)
  /\ UNCHANGED <<prep, tree, events, errors, thrown, deletes>>

\* --------------------------------------------------- ChainTemplate: result
\* this.children_finished + 1 < this.children.length
ChainHasNext(cf, n) == cf + 1 < n

\* the child that has just reported, taken for the next one
ChainSameChild(children, cf) == children[cf + 1]

\* this.children[this.children_finished + 1] (JavaScript indexes from 0)
ChainNextChild(children, cf) == children[cf + 2]

\* `if (command.data.result)`: whether the result is merged into the child's args
MergesResult(result) == Truthy(result)

ChainResultGet(w) ==
  /\ At(w, "chain_result")
  /\ ChainHasNext(w.cf, Len(Children(This(w))))
  /\ Become(w, [w EXCEPT
       !.raw = <<GetRawTask(ChainNextChild(Children(This(w)), w.cf))>>,
       !.pc  = IF MergesResult(CmdResult(w.cmd))
                 THEN "chain_result_args" ELSE "chain_result_eval"])
  /\ UNCHANGED <<prep, tree, store, events, errors, log, thrown, deletes>>

\* childArgs.concat([ command.data.result ])
Concat(childArgs, result) == JSArr(Append(childArgs.items, result))

\* JSON.parse(await hgetAsync(`${prefix}${childID}`, 'args')), then concat: on a
\* hash that is gone the reply is nil, JSON.parse gives null, and null.concat
\* throws a TypeError that ends the handler before any transaction is sent.
ChainResultArgs(w) ==
  /\ At(w, "chain_result_args")
  /\ \E childArgs \in {JSONparse(rec[ChainNextChild(Children(This(w)), w.cf)].args)} :
        IF childArgs.tag = "array"
          THEN /\ Become(w, [w EXCEPT
                    !.newArgs = JSONstringify(Concat(childArgs, CmdResult(w.cmd))),
                    !.pc = "chain_result_eval"])
               /\ UNCHANGED thrown
          ELSE /\ Return(w)
               /\ thrown' = thrown \cup {[command |-> w.cmd, rawChild |-> w.raw[1]]}
  /\ UNCHANGED <<prep, tree, store, events, errors, log, deletes>>

ChainResultExec(id, childID, rawChild, result, newArgs) ==
  << HIncrBy(id, "children_finished", 1) >>
  \o (IF rawChild.exists
        THEN <<ZAddCommand(rawChild.pool, Activate(childID, rawChild.uid))>>
        ELSE <<>>)
  \o (IF MergesResult(result) THEN <<HSet(childID, "args", newArgs)>> ELSE <<>>)

ChainResultTx(w) ==
  Transaction(ThisPool(w), w.cmd, This(w), "idle",
              ChainResultExec(This(w), ChainNextChild(Children(This(w)), w.cf),
                              w.raw[1], CmdResult(w.cmd), w.newArgs))

ChainResultEval(w) ==
  /\ At(w, "chain_result_eval")
  /\ Eval(ChainResultTx(w))
  /\ Logged(ChainResultTx(w))
  /\ Return(w)
  /\ UNCHANGED <<prep, tree, events, errors, thrown, deletes>>

\* The `result` command sent to the parent: data = { id, result }.
ResultToParent(id, parent, result) ==
  Command(parent, Uid(parent), "result", id, JSONstringify(result), NIL)

\* the finishing writes without the chain's own result
ChainFinishExecNoResult(id, total, parent, result) ==
  << HIncrBy(id, "children_finished", 1),
     SRem("idle", id),
     ZAddFinished(id),
     HSet(id, "state", JSONstringify(JSStr("finished"))),
     HSet(id, "progress", total) >>
  \o (IF parent # NoTask
        THEN <<ZAddCommand(tree.pool[parent], ResultToParent(id, parent, result))>>
        ELSE <<>>)

ChainFinishExec(id, total, parent, result) ==
  << HIncrBy(id, "children_finished", 1),
     SRem("idle", id),
     ZAddFinished(id),
     HSet(id, "state", JSONstringify(JSStr("finished"))),
     HSet(id, "progress", total) >>
  \o (IF Defined(result) THEN <<HSet(id, "result", JSONstringify(result))>> ELSE <<>>)
  \o (IF parent # NoTask
        THEN <<ZAddCommand(tree.pool[parent], ResultToParent(id, parent, result))>>
        ELSE <<>>)

\* the finishing transaction expecting the chain to be `waiting` still
ChainFinishTxExpectsWaiting(w) ==
  Transaction(ThisPool(w), w.cmd, This(w), "waiting",
              ChainFinishExec(This(w), ThisTotal(w), ThisParent(w), CmdResult(w.cmd)))

ChainFinishTx(w) ==
  Transaction(ThisPool(w), w.cmd, This(w), "idle",
              ChainFinishExec(This(w), ThisTotal(w), ThisParent(w), CmdResult(w.cmd)))

EmitsEndUnchecked(success) == TRUE

\* `if (success)` after the finishing transaction
EmitsEnd(success) == success

ChainFinishEval(w) ==
  /\ At(w, "chain_result")
  /\ ~ChainHasNext(w.cf, Len(Children(This(w))))
  /\ Eval(ChainFinishTx(w))
  /\ Logged(ChainFinishTx(w))
  /\ IF EmitsEnd(Validates(ChainFinishTx(w))) THEN Goto(w, "chain_emit") ELSE Return(w)
  /\ UNCHANGED <<prep, tree, events, errors, thrown, deletes>>

\* this.queue.emit(`task:end:${this.id}`, eventData)
ChainEmit(w) ==
  /\ At(w, "chain_emit")
  /\ events' = [events EXCEPT ![This(w)] = @ + 1]
  /\ Return(w)
  /\ UNCHANGED <<prep, tree, store, errors, log, thrown, deletes>>

\* ------------------------------------------------- GroupTemplate: activate
\* await __getRawTasks__(this.children)
GroupActivateGet(w) ==
  /\ At(w, "group_activate")
  /\ Become(w, [w EXCEPT !.raw = GetRawTasks(Children(This(w))),
                         !.pc = "group_activate_eval"])
  /\ UNCHANGED <<prep, tree, store, events, errors, log, thrown, deletes>>

\* only the first child is sent `activate`
ActivateFirstOnly(rawChildren, i) ==
  IF i = 1 /\ rawChildren[1].exists
    THEN <<ZAddCommand(rawChildren[1].pool, Activate(rawChildren[1].id, rawChildren[1].uid))>>
    ELSE <<>>

RECURSIVE ActivateChildren(_, _)
\* the loop over rawChildren, skipping the null ones
ActivateChildren(rawChildren, i) ==
  IF i > Len(rawChildren) THEN <<>>
  ELSE (IF rawChildren[i].exists
          THEN <<ZAddCommand(rawChildren[i].pool,
                             Activate(rawChildren[i].id, rawChildren[i].uid))>>
          ELSE <<>>)
       \o ActivateChildren(rawChildren, i + 1)

GroupActivateExec(id, rawChildren) ==
  << SRem("waiting", id),
     SAdd("idle", id),
     HSet(id, "state", JSONstringify(JSStr("idle"))) >>
  \o ActivateChildren(rawChildren, 1)

GroupActivateTx(w) ==
  Transaction(ThisPool(w), w.cmd, This(w), "waiting",
              GroupActivateExec(This(w), w.raw))

GroupActivateEval(w) ==
  /\ At(w, "group_activate_eval")
  /\ Eval(GroupActivateTx(w))
  /\ Logged(GroupActivateTx(w))
  /\ Return(w)
  /\ UNCHANGED <<prep, tree, events, errors, thrown, deletes>>

\* --------------------------------------------------- GroupTemplate: result
GroupCheck(id) == Command(id, Uid(id), "group_check", NoTask, NIL, NIL)

\* the counter incremented with no `group_check` sent
GroupResultExecNoCheck(id, pool) ==
  << HIncrBy(id, "children_finished", 1) >>

\* every counted child reported to the parent at once
GroupResultExecReportsUp(id, pool) ==
  << HIncrBy(id, "children_finished", 1),
     ZAddCommand(pool, GroupCheck(id)) >>
  \o (IF tree.parent[id] # NoTask
        THEN <<ZAddCommand(tree.pool[tree.parent[id]],
                           Command(tree.parent[id], Uid(tree.parent[id]), "result", id, NIL, NIL))>>
        ELSE <<>>)

GroupResultExec(id, pool) ==
  << HIncrBy(id, "children_finished", 1),
     ZAddCommand(pool, GroupCheck(id)) >>

\* the result transaction without the zrem of the locked command
GroupResultTxNoLock(w) ==
  TransactionNoLock(ThisPool(w), w.cmd, This(w), "idle",
                    GroupResultExec(This(w), ThisPool(w)))

GroupResultTx(w) ==
  Transaction(ThisPool(w), w.cmd, This(w), "idle",
              GroupResultExec(This(w), ThisPool(w)))

GroupResultEval(w) ==
  /\ At(w, "group_result")
  /\ Eval(GroupResultTx(w))
  /\ Logged(GroupResultTx(w))
  /\ Return(w)
  /\ UNCHANGED <<prep, tree, events, errors, thrown, deletes>>

\* ---------------------------------------------- GroupTemplate: group_check
\* the completion check taken one child early
GroupNotFinishedOffByOne(cf, n) == cf + 1 < n

\* the completion check with no early return
GroupNeverSkips(cf, n) == FALSE

\* `if (this.children_finished < this.children.length) return;`
GroupNotFinished(cf, n) == cf < n

\* rawChildren.some(child => child === null)
SomeDeleted(rawChildren) == \E i \in 1..Len(rawChildren) : ~rawChildren[i].exists

\* await __getRawTasks__(this.children); on a deleted child the 'error' event
\* is emitted at once, before the transaction is sent.
GroupCheckGet(w) ==
  /\ At(w, "group_check")
  /\ LET rawChildren == GetRawTasks(Children(This(w))) IN
       /\ Become(w, [w EXCEPT !.raw = rawChildren,
                              !.pc = IF SomeDeleted(rawChildren)
                                       THEN "group_fail_eval" ELSE "group_done_eval"])
       /\ errors' = IF SomeDeleted(rawChildren)
                      THEN [errors EXCEPT ![This(w)] = @ + 1] ELSE errors
  /\ UNCHANGED <<prep, tree, store, events, log, thrown, deletes>>

\* the state set to `finished` with the id left in the idle set
GroupFinishExecNoMove(id) ==
  << HSet(id, "state", JSONstringify(JSStr("finished"))) >>

GroupFinishExec(id) ==
  << SRem("idle", id),
     ZAddFinished(id),
     HSet(id, "state", JSONstringify(JSStr("finished"))) >>

ChildrenDeleted == JSError("Group error: terminating task because children deleted")

\* The `error` command sent to the parent: data = { error }.
ErrorToParent(parent, err) ==
  Command(parent, Uid(parent), "error", NoTask, NIL, JSONstringify(err))

GroupFailExec(id, parent) ==
  GroupFinishExec(id)
  \o (IF parent # NoTask
        THEN <<ZAddCommand(tree.pool[parent], ErrorToParent(parent, ChildrenDeleted))>>
        ELSE <<>>)
  \o << HSet(id, "error", JSONstringify(ChildrenDeleted)) >>

GroupFailTx(w) ==
  Transaction(ThisPool(w), w.cmd, This(w), "idle",
              GroupFailExec(This(w), ThisParent(w)))

GroupFailEval(w) ==
  /\ At(w, "group_fail_eval")
  /\ Eval(GroupFailTx(w))
  /\ Logged(GroupFailTx(w))
  /\ IF EmitsEnd(Validates(GroupFailTx(w))) THEN Goto(w, "group_emit") ELSE Return(w)
  /\ UNCHANGED <<prep, tree, events, errors, thrown, deletes>>

\* the children's results collected in the reverse of list order
ChildResultsReversed(rawChildren) ==
  JSArr([i \in 1..Len(rawChildren) |-> rawChildren[Len(rawChildren) + 1 - i].result])

\* rawChildren.map(child => child.result)
ChildResults(rawChildren) ==
  JSArr([i \in 1..Len(rawChildren) |-> rawChildren[i].result])

GroupDoneExec(id, total, parent, result) ==
  GroupFinishExec(id)
  \o << HSet(id, "progress", total) >>
  \o (IF Defined(result) THEN <<HSet(id, "result", JSONstringify(result))>> ELSE <<>>)
  \o (IF parent # NoTask
        THEN <<ZAddCommand(tree.pool[parent], ResultToParent(id, parent, result))>>
        ELSE <<>>)

GroupDoneTx(w) ==
  Transaction(ThisPool(w), w.cmd, This(w), "idle",
              GroupDoneExec(This(w), ThisTotal(w), ThisParent(w),
                            ChildResults(w.raw)))

GroupDoneEval(w) ==
  /\ At(w, "group_done_eval")
  /\ Eval(GroupDoneTx(w))
  /\ Logged(GroupDoneTx(w))
  /\ IF EmitsEnd(Validates(GroupDoneTx(w))) THEN Goto(w, "group_emit") ELSE Return(w)
  /\ UNCHANGED <<prep, tree, events, errors, thrown, deletes>>

GroupEmit(w) ==
  /\ At(w, "group_emit")
  /\ events' = [events EXCEPT ![This(w)] = @ + 1]
  /\ Return(w)
  /\ UNCHANGED <<prep, tree, store, errors, log, thrown, deletes>>

\* ------------------------------------------------------------- the workers
\* The handler a command is routed to: handleCommand_<type> of the task's template.
Handler(c) ==
  CASE Kind(c.to) = "chain" /\ c.type = "activate"    -> "chain_activate"
    [] Kind(c.to) = "chain" /\ c.type = "result"      -> "chain_result"
    [] Kind(c.to) = "group" /\ c.type = "activate"    -> "group_activate"
    [] Kind(c.to) = "group" /\ c.type = "result"      -> "group_result"
    [] Kind(c.to) = "group" /\ c.type = "group_check" -> "group_check"
    [] OTHER -> "none"

\* handleCommand_group_check returns at once, before any store round trip,
\* while the counter it was given is short of the number of children.
GroupCheckSkip(c) ==
  /\ Handler(c) = "group_check"
  /\ GroupNotFinished(rec[c.to].children_finished, Len(Children(c.to)))

\* The worker reads the addressed task and calls its handler on this in-memory
\* copy.  The handler runs up to its first store round trip.
Dispatch(c) ==
  IF GroupCheckSkip(c)
    THEN UNCHANGED wk
    ELSE wk' = wk (+) SetToBag({Handling(Handler(c), c, rec[c.to].children_finished)})

\* the task a command is addressed to is there, under the uid the command names
Addressed(c) == rec[c.to].exists /\ rec[c.to].uid = c.to_uid

\* A free worker claims a pending command: it moves from `commands` to
\* `commands_locked`, and the worker handles it.  A command whose task is
\* gone, or has another uid, is dropped.
Claim(p, c) ==
  /\ BagCardinality(wk) < NumWorkers
  /\ c \in commands[p]
  /\ Handler(c) # "none"
  /\ commands' = [commands EXCEPT ![p] = @ \ {c}]
  /\ IF Addressed(c)
       THEN /\ commands_locked' = [commands_locked EXCEPT ![p] = @ \cup {c}]
            /\ Dispatch(c)
       ELSE UNCHANGED <<commands_locked, wk>>
  /\ UNCHANGED <<prep, tree, rec, waiting, idle, finished, events, errors, log, thrown, deletes>>

\* A command left in `commands_locked` (its lock timed out, or its handler
\* returned without consuming it) is taken again, by any free worker.
Reclaim(p, c) ==
  /\ BagCardinality(wk) < NumWorkers
  /\ c \in commands_locked[p]
  /\ Handler(c) # "none"
  /\ IF Addressed(c)
       THEN /\ Dispatch(c)
            /\ UNCHANGED commands_locked
       ELSE /\ commands_locked' = [commands_locked EXCEPT ![p] = @ \ {c}]
            /\ UNCHANGED wk
  /\ UNCHANGED <<prep, tree, rec, waiting, idle, finished, commands, events, errors, log,
                 thrown, deletes>>

\* ---------------------------------------------------------- the environment
\* A leaf child runs: its `activate` is consumed, its result persisted, and one
\* `result` command goes to its parent.  A leaf whose record is gone never runs.
LeafRun(c, r) ==
  /\ Kind(c.to) = "leaf"
  /\ c.type = "activate"
  /\ c \in commands[tree.pool[c.to]]
  /\ IF rec[c.to].exists /\ rec[c.to].uid = c.to_uid
       THEN /\ rec' = [rec EXCEPT ![c.to].state = JSONstringify(JSStr("finished")),
                                  ![c.to].result = JSONstringify(r),
                                  ![c.to].progress = tree.total[c.to]]
            /\ waiting' = waiting \ {c.to}
            /\ finished' = finished \cup {c.to}
            /\ commands' =
                 [p \in Pools |->
                    (commands[p] \ {c}) \cup
                    (IF p = tree.pool[tree.parent[c.to]]
                       THEN {ResultToParent(c.to, tree.parent[c.to], r)} ELSE {})]
       ELSE /\ commands' = [commands EXCEPT ![tree.pool[c.to]] = @ \ {c}]
            /\ UNCHANGED <<rec, waiting, finished>>
  /\ UNCHANGED <<prep, tree, idle, commands_locked, wk, events, errors, log, thrown, deletes>>

\* The record of a child task vanishes (cancellation, removal).
Delete(t) ==
  /\ deletes < MaxDeletes
  /\ tree.parent[t] # NoTask
  /\ t \in tree.mortal
  /\ rec[t].exists
  /\ rec' = [rec EXCEPT ![t] = NoRecord]
  /\ waiting' = waiting \ {t}
  /\ idle' = idle \ {t}
  /\ finished' = finished \ {t}
  /\ deletes' = deletes + 1
  /\ UNCHANGED <<prep, tree, commands, commands_locked, wk, events, errors, log, thrown>>

\* ------------------------------------------------------------ specification
AllCommands == UNION {commands[p] \cup commands_locked[p] : p \in Pools}

Next ==
  \/ \E p \in Pools : \E c \in commands[p] : Claim(p, c)
  \/ \E p \in Pools : \E c \in commands_locked[p] : Reclaim(p, c)
  \/ \E w \in Busy : ChainActivateGet(w)
  \/ \E w \in Busy : ChainActivateEval(w)
  \/ \E w \in Busy : ChainResultGet(w)
  \/ \E w \in Busy : ChainResultArgs(w)
  \/ \E w \in Busy : ChainResultEval(w)
  \/ \E w \in Busy : ChainFinishEval(w)
  \/ \E w \in Busy : ChainEmit(w)
  \/ \E w \in Busy : GroupActivateGet(w)
  \/ \E w \in Busy : GroupActivateEval(w)
  \/ \E w \in Busy : GroupResultEval(w)
  \/ \E w \in Busy : GroupCheckGet(w)
  \/ \E w \in Busy : GroupFailEval(w)
  \/ \E w \in Busy : GroupDoneEval(w)
  \/ \E w \in Busy : GroupEmit(w)
  \/ \E c \in AllCommands : \E r \in tree.returns[c.to] : LeafRun(c, r)
  \/ \E t \in Tasks : Delete(t)

Spec == Init /\ [][Next]_vars

\* ------------------------------------------------- runs without deletions
\* The steps of a run in which no record is deleted: every step of Next but
\* Delete and the group's deleted-children branch, which needs one.
LiveNext ==
  \/ \E p \in Pools : \E c \in commands[p] : Claim(p, c)
  \/ \E p \in Pools : \E c \in commands_locked[p] : Reclaim(p, c)
  \/ \E w \in Busy : ChainActivateGet(w)
  \/ \E w \in Busy : ChainActivateEval(w)
  \/ \E w \in Busy : ChainResultGet(w)
  \/ \E w \in Busy : ChainResultArgs(w)
  \/ \E w \in Busy : ChainResultEval(w)
  \/ \E w \in Busy : ChainFinishEval(w)
  \/ \E w \in Busy : ChainEmit(w)
  \/ \E w \in Busy : GroupActivateGet(w)
  \/ \E w \in Busy : GroupActivateEval(w)
  \/ \E w \in Busy : GroupResultEval(w)
  \/ \E w \in Busy : GroupCheckGet(w)
  \/ \E w \in Busy : GroupDoneEval(w)
  \/ \E w \in Busy : GroupEmit(w)
  \/ \E c \in AllCommands : \E r \in tree.returns[c.to] : LeafRun(c, r)

\* The next step of a handler a worker has started.
HandlerStep(w) ==
  \/ ChainActivateGet(w) \/ ChainActivateEval(w)
  \/ ChainResultGet(w) \/ ChainResultArgs(w) \/ ChainResultEval(w)
  \/ ChainFinishEval(w) \/ ChainEmit(w)
  \/ GroupActivateGet(w) \/ GroupActivateEval(w)
  \/ GroupResultEval(w)
  \/ GroupCheckGet(w) \/ GroupDoneEval(w) \/ GroupEmit(w)

\* Workers keep taking pending commands and keep running the handlers they
\* have started; activated leaves keep running.
Fairness ==
  /\ WF_vars(\E p \in Pools : \E c \in commands[p] : Claim(p, c))
  /\ WF_vars(\E w \in Busy : HandlerStep(w))
  /\ WF_vars(\E c \in AllCommands : \E r \in tree.returns[c.to] : LeafRun(c, r))

LiveSpec == Init /\ [][LiveNext]_vars /\ Fairness

\* -------------------------------------------------------------- preparation
\* What the constructor may be given as args[0], and what init() may return.
FirstArgs   == {<<>>, <<2>>, <<3>>, <<2, 3>>, <<3, 2>>, <<0>>, <<0, 2>>}
InitReturns == {Unset, Set(<<>>), Set(<<2>>), Set(<<3>>), Set(<<2, 3>>), Set(<<3, 2>>)}

\* t.total of a child template (a leaf counts its own units of progress)
ChildTotal(t) == IF t = 3 THEN 2 ELSE 1

RECURSIVE SumTotals(_, _)
\* forEach(t => this.total += t.total)
SumTotals(ts, i) == IF i > Len(ts) THEN 0 ELSE ChildTotal(ts[i]) + SumTotals(ts, i + 1)

\* a tree with no task in it
NoTree ==
  Tree([t \in Tasks |-> "none"], [t \in Tasks |-> <<>>], [t \in Tasks |-> NoTask],
       [t \in Tasks |-> "default"], NoArgs, [t \in Tasks |-> 0], NoReturns, {})

\* A composite template has just been constructed; nothing is in the store.
PrepInit ==
  /\ prep \in {Construct(kind, first, init) :
                 kind \in {"chain", "group"}, first \in FirstArgs, init \in InitReturns}
  /\ tree = NoTree
  /\ rec = [t \in Tasks |-> NoRecord]
  /\ waiting = {}
  /\ idle = {}
  /\ finished = {}
  /\ commands = [p \in Pools |-> {}]
  /\ commands_locked = [p \in Pools |-> {}]
  /\ wk = EmptyBag
  /\ events = [t \in Tasks |-> 0]
  /\ errors = [t \in Tasks |-> 0]
  /\ log = [t \in Tasks |-> <<>>]
  /\ thrown = {}
  /\ deletes = 0

\* this.id = this.taskID(); then init() is called and awaited
PrepareCallInit ==
  /\ prep.phase = "constructed"
  /\ prep' = [prep EXCEPT !.id = CHOOSE t \in Tasks : \A u \in Tasks : t <= u,
                          !.phase = "init"]
  /\ UNCHANGED <<tree, store, wk, events, errors, log, thrown, deletes>>

\* `if (Array.isArray(_children)) this.__children_to_init__ = _children;`
ChildrenToInit(t) == IF t.init # Unset THEN t.init[1] ELSE t.children_to_init

\* the check taken for passed whatever the list holds
HasNoChildrenNever(children_to_init) == FALSE

\* `!this.__children_to_init__.length`
HasNoChildren(children_to_init) == Len(children_to_init) = 0

\* 'ido error: you should specify chain children' /
\* 'Queue error: you should specify group children'
ConfigurationError(kind) ==
  IF kind = "chain" THEN "ido error: you should specify chain children"
                    ELSE "Queue error: you should specify group children"

\* init() has returned: the children are settled, and either prepare rejects
\* or the fields are assigned their first values (a group also gets result = []).
PrepareCheck ==
  /\ prep.phase = "init"
  /\ LET cti == ChildrenToInit(prep) IN
       IF HasNoChildren(cti)
         THEN prep' = [prep EXCEPT !.children_to_init = cti,
                                   !.phase = "rejected",
                                   !.error = ConfigurationError(prep.kind)]
         ELSE prep' = [prep EXCEPT !.children_to_init = cti,
                                   !.children = Set(<<>>),
                                   !.children_finished = Set(0),
                                   !.total = Set(0),
                                   !.result = IF prep.kind = "group" THEN Set(<<>>) ELSE Unset,
                                   !.phase = "linking"]
  /\ UNCHANGED <<tree, store, wk, events, errors, log, thrown, deletes>>

\* Promise.all(children).then: total += t.total; t.setParent(this);
\* children.push(t.id), for every child in order
PrepareLink ==
  /\ prep.phase = "linking"
  /\ prep' = [prep EXCEPT
       !.total = Set(prep.total[1] + SumTotals(prep.children_to_init, 1)),
       !.children = Set(prep.children[1] \o prep.children_to_init),
       !.phase = "resolved"]
  /\ tree' = [tree EXCEPT
       !.parent = [t \in Tasks |-> IF t \in Range(prep.children_to_init)
                                     THEN prep.id ELSE @[t]]]
  /\ UNCHANGED <<store, wk, events, errors, log, thrown, deletes>>

\* The caller persists a template whose prepare() resolved: its hash is
\* written and its id put in `waiting`.  A rejected prepare() ends there.
Persist ==
  /\ prep.phase = "resolved"
  /\ prep' = [prep EXCEPT !.phase = "persisted"]
  /\ tree' = [tree EXCEPT !.kind[prep.id] = prep.kind,
                          !.children[prep.id] = prep.children[1],
                          !.total[prep.id] = prep.total[1]]
  /\ rec' = [rec EXCEPT ![prep.id] =
               [FreshRecord(prep.id) EXCEPT !.children_finished = prep.children_finished[1]]]
  /\ waiting' = waiting \cup {prep.id}
  /\ UNCHANGED <<idle, finished, commands, commands_locked,
                 wk, events, errors, log, thrown, deletes>>

PrepNext ==
  \/ PrepareCallInit
  \/ PrepareCheck
  \/ PrepareLink
  \/ Persist

PrepSpec == PrepInit /\ [][PrepNext]_vars

\* ------------------------------------------------- reading the transaction log
Chains == {t \in Tasks : Kind(t) = "chain"}
Groups == {t \in Tasks : Kind(t) = "group"}
\* the number of workers that are at one of the points `pcs` of a handler for c
WorkersAt(c, pcs) ==
  BagCardinality([h \in {x \in Busy : x.cmd.to = c /\ x.pc \in pcs} |-> wk[h]])

\* the commands a transaction enqueues
Enqueued(tx) ==
  {tx.exec[i].val : i \in {j \in DOMAIN tx.exec :
                             tx.exec[j].cmd = "zadd" /\ tx.exec[j].key \in Pools}}
ActivatedBy(tx) == {c.to : c \in {d \in Enqueued(tx) : d.type = "activate"}}

\* the transaction writes `field` of the hash of `id`
Writes(tx, id, field) ==
  \E i \in DOMAIN tx.exec :
    tx.exec[i].cmd \in {"hset", "hincrby"} /\ tx.exec[i].id = id /\ tx.exec[i].field = field
Sets(tx, id, field, text) ==
  \E i \in DOMAIN tx.exec :
    tx.exec[i].cmd = "hset" /\ tx.exec[i].id = id /\ tx.exec[i].field = field
      /\ tx.exec[i].val = text

\* a finishing transaction: it sets the task's state to `finished`
Finishing(tx) == Sets(tx, tx.id, "state", JSONstringify(JSStr("finished")))
FinishingOf(c) == {i \in DOMAIN log[c] : Finishing(log[c][i])}

Is(t, state) == rec[t].state = JSONstringify(JSStr(state))

\* ---------------------------------------------------------------------- C1
\* C1: a composite finishes exactly once: at most one finishing transaction ever
\* succeeds for it, and `task:end:{id}` is emitted once for that transaction and
\* never otherwise: the events emitted, plus the winner still about to emit,
\* always equal the number of finishing transactions, which is at most one.
C1_FinishedExactlyOnce ==
  \A c \in Composites :
    /\ Cardinality(FinishingOf(c)) <= 1
    /\ events[c] + WorkersAt(c, {"chain_emit", "group_emit"}) = Cardinality(FinishingOf(c))

\* Two workers raced on the terminal command of a composite: one has finished it
\* and emitted, the other still holds the command and is about to send its
\* own finishing transaction.
C1_Witness ==
  \E c \in Composites : \E w \in Busy :
    /\ events[c] = 1
    /\ This(w) = c
    /\ \/ w.pc \in {"group_done_eval", "group_fail_eval"}
       \/ w.pc = "chain_result" /\ ~ChainHasNext(w.cf, Len(Children(c)))

\* ---------------------------------------------------------------------- C2
\* C2: however many workers hold the same command, and however often it is
\* delivered, at most one transaction succeeds for it: no two transactions in a
\* task's log are for the same canonical command, and no child is sent
\* `activate` by more than one of them; once a composite has left `waiting`,
\* exactly one `activate` transaction has succeeded for it, the first in its log.
C2_OneTransactionPerCommand ==
  \A c \in Composites :
    /\ \A i, j \in DOMAIN log[c] : i # j => log[c][i].command # log[c][j].command
    /\ \A k \in Range(Children(c)) :
         Cardinality({i \in DOMAIN log[c] : k \in ActivatedBy(log[c][i])}) <= 1
    /\ (Is(c, "idle") \/ Is(c, "finished")) =>
         /\ {i \in DOMAIN log[c] : log[c][i].command.type = "activate"} = {1}
         /\ ActivatedBy(log[c][1]) \subseteq Range(Children(c))

\* Two workers hold the `activate` of a chain: the transaction of one has moved
\* the chain to `idle` and activated children[0]; the other is about to send its own.
C2_Witness ==
  \E c \in Chains : \E w \in Busy :
    /\ Is(c, "idle")
    /\ Len(log[c]) = 1
    /\ ActivatedBy(log[c][1]) = {Children(c)[1]}
    /\ This(w) = c
    /\ w.pc = "chain_activate_eval"
    /\ w.cmd = log[c][1].command

\* ---------------------------------------------------------------------- C3
Last(q) == q[Len(q)]

\* C3: the persisted state of a composite changes only waiting -> idle, by a
\* transaction for an `activate` command, and idle -> finished, by a transaction
\* for a `result` (chain) or `group_check` (group) command; no step takes it from
\* idle or finished back, or from waiting to finished.  (A deleted record has
\* no state left.)
C3_StateTransitions ==
  [][\A c \in Composites :
       rec'[c].state # rec[c].state =>
         \/ rec'[c].state = NIL
         \/ /\ rec[c].state = JSONstringify(JSStr("waiting"))
            /\ rec'[c].state = JSONstringify(JSStr("idle"))
            /\ Len(log'[c]) = Len(log[c]) + 1
            /\ Last(log'[c]).command.type = "activate"
         \/ /\ rec[c].state = JSONstringify(JSStr("idle"))
            /\ rec'[c].state = JSONstringify(JSStr("finished"))
            /\ Len(log'[c]) = Len(log[c]) + 1
            /\ Last(log'[c]).command.type =
                 (IF Kind(c) = "chain" THEN "result" ELSE "group_check")]_vars

\* A chain and a group that have both gone waiting -> idle -> finished.
C3_Witness ==
  \E c \in Chains : \E g \in Groups :
    /\ Is(c, "finished") /\ Len(log[c]) >= 2 /\ log[c][1].command.type = "activate"
    /\ Is(g, "finished") /\ Len(log[g]) >= 2 /\ log[g][1].command.type = "activate"

\* ---------------------------------------------------------------------- C4
IndexOf(q, x) == CHOOSE i \in DOMAIN q : q[i] = x

\* the child that follows child k in the list of composite c
NextAfter(c, k) == Children(c)[IndexOf(Children(c), k) + 1]

\* the transactions of chain c that processed the result of a child that is not the last
Advances(c) ==
  {i \in DOMAIN log[c] : log[c][i].command.type = "result" /\ ~Finishing(log[c][i])}

\* C4: result feeding: whenever a chain processes the `result` command of child k,
\* k+1 < N, carrying a JSON value R (0, false, "" and null included), that
\* transaction writes to child k+1 the args it had at prepare with R appended.
C4_ResultAppended ==
  \A c \in Chains : \A i \in Advances(c) :
    LET tx   == log[c][i]
        next == NextAfter(c, tx.command.id)
    IN  tx.command.result # NIL =>
          Sets(tx, next, "args",
               JSONstringify(JSArr(Append(tree.args[next], JSONparse(tx.command.result)))))

\* ---------------------------------------------------------------------- C5
\* C5: a chain whose next child's record is deleted is not stopped by it: no
\* handler of a chain that found the record of its next child missing throws,
\* whatever result the command carries, and a transaction that sends no
\* `activate` to its next child (the record was missing) still advances the
\* chain one step and writes nothing to that child's record.
C5_MissingChildTolerated ==
  /\ \A e \in thrown : Kind(e.command.to) = "chain" => e.rawChild.exists
  /\ \A c \in Chains : \A i \in DOMAIN log[c] :
       LET tx   == log[c][i]
           next == IF tx.command.type = "activate" THEN Children(c)[1]
                   ELSE NextAfter(c, tx.command.id)
       IN  (~Finishing(tx) /\ next \notin ActivatedBy(tx)) =>
             /\ ~Writes(tx, next, "args")
             /\ \/ Sets(tx, c, "state", JSONstringify(JSStr("idle")))
                \/ Writes(tx, c, "children_finished")

\* ---------------------------------------------------------------------- C6
RECURSIVE ActivatedSeq(_, _)
\* the children a chain has sent `activate` to, in the order of its transactions
ActivatedSeq(c, i) ==
  IF i > Len(log[c]) THEN <<>>
  ELSE (IF ActivatedBy(log[c][i]) = {} THEN <<>>
        ELSE <<CHOOSE k \in ActivatedBy(log[c][i]) : TRUE>>)
       \o ActivatedSeq(c, i + 1)

\* C6: a chain activates its children in list order, none skipped or repeated:
\* every transaction enqueues at most one `activate`, the sequence of children
\* activated is always children[0..m-1] for some m, and a child other than
\* children[0] is activated only by the transaction for the `result` command of
\* the child just before it.
C6_ActivatedInOrder ==
  \A c \in Chains :
    /\ ActivatedSeq(c, 1) = SubSeq(Children(c), 1, Len(ActivatedSeq(c, 1)))
    /\ \A i \in DOMAIN log[c] :
         /\ Cardinality(ActivatedBy(log[c][i])) <= 1
         /\ \A k \in ActivatedBy(log[c][i]) :
              IF k = Children(c)[1]
                THEN log[c][i].command.type = "activate"
                ELSE /\ log[c][i].command.type = "result"
                     /\ NextAfter(c, log[c][i].command.id) = k

\* A chain of three has activated all three of its children.
C6_Witness ==
  \E c \in Chains : Len(Children(c)) = 3 /\ ActivatedSeq(c, 1) = Children(c)

\* ---------------------------------------------------------------------- C7
\* the children whose `result` command the composite has processed
Reported(c) ==
  {log[c][i].command.id : i \in {j \in DOMAIN log[c] : log[c][j].command.type = "result"}}

\* active: sent `activate`, and its `result` not yet processed by the chain
Active(c) == Range(ActivatedSeq(c, 1)) \ Reported(c)

\* C7: a chain never has more than one active child.
C7_AtMostOneActive ==
  \A c \in Chains : Cardinality(Active(c)) <= 1

\* The second child of a chain is the active one, the first having reported.
C7_Witness ==
  \E c \in Chains :
    /\ Active(c) = {Children(c)[2]}
    /\ Children(c)[1] \in Reported(c)
    /\ rec[c].children_finished = 1

\* ---------------------------------------------------------------------- C8
\* Nothing is in flight: every worker is idle, the only commands left pending are
\* `error` commands, and the only commands left locked are `group_check`s of
\* groups whose counter is short of N (handling them again returns at once).
Settled ==
  /\ wk = EmptyBag
  /\ \A p \in Pools : \A c \in commands[p] : c.type = "error"
  /\ \A p \in Pools : \A c \in commands_locked[p] :
       /\ c.type = "group_check"
       /\ GroupNotFinished(rec[c.to].children_finished, Len(Children(c.to)))

\* the commands of a given type that the transactions of task t sent to its parent
SentUp(t, type) ==
  {c \in UNION {Enqueued(log[t][i]) : i \in DOMAIN log[t]} :
     c.to = tree.parent[t] /\ c.type = type}

\* C8: a group one of whose children was sent `activate` and then lost its
\* record, at any point before the terminal `group_check` (also before the
\* child reported), still terminates: once nothing is in flight any more it
\* is `finished` with `error` persisted, and its parent, if any, was sent an
\* `error` command and no `result` command.
C8_GroupWithDeletedChildFinishes ==
  \A g \in Groups :
    ( /\ Settled
      /\ rec[g].exists
      /\ log[g] # <<>>
      /\ \E k \in ActivatedBy(log[g][1]) : ~rec[k].exists )
    => /\ Is(g, "finished")
       /\ rec[g].error # NIL
       /\ tree.parent[g] # NoTask => (SentUp(g, "error") # {} /\ SentUp(g, "result") = {})

\* ---------------------------------------------------------------------- C9
\* C9: a composite finishes only after every child has reported: the finishing
\* transaction of a chain is the one for the `result` command of its last
\* child, that of a group comes after a `result` transaction for each of its N
\* children; in both cases `children_finished` is N from then on.
C9_FinishedAfterAllReported ==
  \A c \in Composites : \A i \in FinishingOf(c) :
    /\ Reported(c) = Range(Children(c))
    /\ Is(c, "finished") => rec[c].children_finished = Len(Children(c))
    /\ Kind(c) = "chain" =>
         /\ log[c][i].command.type = "result"
         /\ log[c][i].command.id = Last(Children(c))
    /\ Kind(c) = "group" =>
         /\ log[c][i].command.type = "group_check"
         /\ Cardinality({j \in 1..(i - 1) : log[c][j].command.type = "result"})
              = Len(Children(c))

\* A chain and a group have each finished, all their children having reported.
C9_Witness ==
  \E c \in Chains : \E g \in Groups :
    /\ FinishingOf(c) # {} /\ rec[c].children_finished = Len(Children(c))
    /\ FinishingOf(g) # {} /\ rec[g].children_finished = Len(Children(g))
    /\ rec[g].error = NIL

\* --------------------------------------------------------------------- C10
\* C10: the persisted `children_finished` of a composite never exceeds the
\* number of its children, and no step decreases it (short of the record
\* itself being deleted).
C10_CounterMonotoneBounded ==
  [][\A c \in Composites :
       /\ rec'[c].children_finished <= Len(Children(c))
       /\ rec'[c].exists => rec'[c].children_finished >= rec[c].children_finished]_vars

\* Two `result` commands of one group are being handled at the same time: the
\* transaction of one worker has counted its child, while the other worker
\* still holds the in-memory counter 0 and is about to send its own.
C10_Witness ==
  \E g \in Groups : \E w \in Busy :
    /\ rec[g].children_finished = 1
    /\ At(w, "group_result") /\ This(w) = g /\ w.cf = 0
    /\ w.cmd.id \notin Reported(g)

\* --------------------------------------------------------------------- C11
\* the finishing transactions of group g that found every child record present
GroupDone(g) == {i \in FinishingOf(g) : ~Writes(log[g][i], g, "error")}

\* what the record of task k holds as `result`, read back; a record that holds
\* none gives null, the JSON text of an undefined array element
PersistedResult(k) == IF rec[k].result = NIL THEN JSNull ELSE JSONparse(rec[k].result)

\* C11: a group that finished with every child record present holds as `result`
\* a sequence of length N whose i-th element is the `result` persisted in the
\* record of children[i] (null where that record holds none), whatever the
\* order in which the children reported, and the one `result` command it sent
\* to its parent carries the same sequence.
C11_GroupResultInChildrenOrder ==
  \A g \in Groups : \A i \in GroupDone(g) :
    LET kids == Children(g)
        collected == JSArr([j \in 1..Len(kids) |-> PersistedResult(kids[j])])
    IN  (rec[g].exists /\ \A j \in 1..Len(kids) : rec[kids[j]].exists) =>
          /\ rec[g].result # NIL
          /\ JSONparse(rec[g].result).tag = "array"
          /\ Len(JSONparse(rec[g].result).items) = Len(kids)
          /\ \A j \in 1..Len(kids) :
               JSONparse(rec[g].result).items[j] = PersistedResult(kids[j])
          /\ tree.parent[g] # NoTask =>
               SentUp(g, "result") =
                 {Command(tree.parent[g], Uid(tree.parent[g]), "result", g,
                          JSONstringify(collected), NIL)}

\* A group of two has finished with both results collected, its second child
\* having reported before its first, and the two results differ.
C11_Witness ==
  \E g \in Groups :
    /\ GroupDone(g) # {}
    /\ Len(Children(g)) = 2
    /\ log[g][2].command.type = "result"
    /\ log[g][2].command.id = Children(g)[2]
    /\ rec[Children(g)[1]].exists /\ rec[Children(g)[2]].exists
    /\ rec[g].result = JSONstringify(JSArr(<<JSStr("a"), JSNum("7")>>))

\* --------------------------------------------------------------------- C12
\* the step appends to the log of g a transaction for a command of this type
Commits(g, type) ==
  /\ Len(log'[g]) = Len(log[g]) + 1
  /\ Last(log'[g]).command.type = type

\* the children of g whose record is in the store
Present(g) == {k \in Range(Children(g)) : rec[k].exists}

\* the children a handler found present when it read them
ReadPresent(w) == {w.raw[i].id : i \in {j \in DOMAIN w.raw : w.raw[j].exists}}

\* C12 as stated: the children sent `activate` by a group's `activate`
\* transaction are exactly those whose record exists at the moment of that
\* transaction.
C12_ActivatesExactlyPresent ==
  [][\A g \in Groups :
       Commits(g, "activate") => ActivatedBy(Last(log'[g])) = Present(g)]_vars

\* C12, amended: the children sent `activate` are exactly those whose record
\* the handler found when it read them, before the transaction; these include
\* every child present at the moment of the transaction (none is left without
\* an `activate`), and all are enqueued by the one transaction that moves the
\* group from `waiting` to `idle`.
C12_ActivatesChildrenRead ==
  [][\A g \in Groups :
       Commits(g, "activate") =>
         LET tx == Last(log'[g]) IN
           /\ \E w \in Busy :
                /\ At(w, "group_activate_eval") /\ This(w) = g /\ tx = GroupActivateTx(w)
                /\ ActivatedBy(tx) = ReadPresent(w)
           /\ Present(g) \subseteq ActivatedBy(tx)
           /\ ActivatedBy(tx) \subseteq Range(Children(g))
           /\ Is(g, "waiting")
           /\ rec'[g].state = JSONstringify(JSStr("idle"))
           /\ \A k \in ActivatedBy(tx) :
                Activate(k, Uid(k)) \in commands'[tree.pool[k]]]_vars

\* A group was activated after one of its two children had lost its record:
\* only the other child was sent `activate`.
C12_Witness ==
  \E g \in Groups :
    /\ log[g] # <<>>
    /\ Len(Children(g)) = 2
    /\ ~rec[Children(g)[1]].exists
    /\ ActivatedBy(log[g][1]) = {Children(g)[2]}

\* --------------------------------------------------------------------- C13
\* the worker is at the point where its handler submits a transaction
Submitting(w) ==
  \/ w.pc \in {"chain_activate_eval", "chain_result_eval", "group_activate_eval",
               "group_result", "group_fail_eval", "group_done_eval"}
  \/ w.pc = "chain_result" /\ ~ChainHasNext(w.cf, Len(Children(This(w))))

\* the transaction it submits there
TxAt(w) ==
  CASE w.pc = "chain_activate_eval" -> ChainActivateTx(w)
    [] w.pc = "chain_result_eval"   -> ChainResultTx(w)
    [] w.pc = "chain_result"        -> ChainFinishTx(w)
    [] w.pc = "group_activate_eval" -> GroupActivateTx(w)
    [] w.pc = "group_result"        -> GroupResultTx(w)
    [] w.pc = "group_fail_eval"     -> GroupFailTx(w)
    [] w.pc = "group_done_eval"     -> GroupDoneTx(w)

\* the step is this worker's evalAsync(transaction) and what follows the reply
EvalStep(w) ==
  \/ ChainActivateEval(w) \/ ChainResultEval(w) \/ ChainFinishEval(w)
  \/ GroupActivateEval(w) \/ GroupResultEval(w) \/ GroupFailEval(w) \/ GroupDoneEval(w)

\* the step is a transaction of w that fails validation
Fails(w) == Submitting(w) /\ ~Validates(TxAt(w)) /\ EvalStep(w)

Delivers(p, c) == Claim(p, c) \/ Reclaim(p, c)

\* C14: a `group_check` handled while the group's `children_finished` is less
\* than N changes nothing: the records and the waiting/idle/finished sets are
\* as before, no transaction is submitted then or later for this delivery (no
\* handler is left running), no event is emitted and no command is enqueued
\* (the pending and locked commands of every pool are, together, the same).
C14_EarlyGroupCheckIsNoOp ==
  [][\A p \in Pools : \A c \in commands[p] \cup commands_locked[p] :
       ( /\ c.type = "group_check"
         /\ Kind(c.to) = "group"
         /\ Addressed(c)
         /\ rec[c.to].children_finished < Len(Children(c.to))
         /\ Delivers(p, c) )
       => /\ UNCHANGED <<rec, waiting, idle, finished, log, events, errors, wk>>
          /\ \A q \in Pools :
               /\ commands'[q] \subseteq commands[q]
               /\ commands'[q] \cup commands_locked'[q]
                    = commands[q] \cup commands_locked[q]]_vars

\* The `group_check` sent after the first of two results has been handled and
\* skipped: it is locked, no worker holds it, and the group is `idle` with its
\* counter at 1 and nothing but `activate` and that one `result` in its log.
C14_Witness ==
  \E g \in Groups :
    /\ GroupCheck(g) \in commands_locked[tree.pool[g]]
    /\ WorkersAt(g, {"group_check", "group_done_eval", "group_fail_eval"}) = 0
    /\ Is(g, "idle")
    /\ rec[g].children_finished = 1
    /\ Len(Children(g)) = 2
    /\ Len(log[g]) = 2

\* --------------------------------------------------------------------- C15
\* the commands a transaction enqueues on pool p
EnqueuedOn(tx, p) ==
  {tx.exec[i].val : i \in {j \in DOMAIN tx.exec :
                             tx.exec[j].cmd = "zadd" /\ tx.exec[j].key = p}}

\* C15: the transaction that finishes a chain is the one for the `result`
\* command of its last child; it persists the result that command carries
\* (none, when it carries none) and sets `progress` to `total`; with a parent
\* it enqueues exactly one command, `result` with data {id, result}, on the
\* parent's pool, and without a parent it enqueues nothing.  So a finished
\* chain holds the result its last child holds, composite or not, and has sent
\* its parent that one command and no other.
C15_ChainResultIsLastChilds ==
  \A c \in Chains : \A i \in FinishingOf(c) :
    LET tx     == log[c][i]
        last   == Last(Children(c))
        parent == tree.parent[c]
        up     == Command(parent, Uid(parent), "result", c, tx.command.result, NIL)
    IN  /\ tx.command.type = "result" /\ tx.command.id = last
        /\ IF tx.command.result = NIL
             THEN ~Writes(tx, c, "result")
             ELSE Sets(tx, c, "result", tx.command.result)
        /\ \E k \in DOMAIN tx.exec :
             tx.exec[k] = HSet(c, "progress", tree.total[c])
        /\ IF parent = NoTask
             THEN Enqueued(tx) = {}
             ELSE /\ Enqueued(tx) = {up}
                  /\ EnqueuedOn(tx, tree.pool[parent]) = {up}
                  /\ SentUp(c, "result") = {up}
        /\ rec[c].exists =>
             /\ rec[c].result = tx.command.result
             /\ rec[c].progress = tree.total[c]
             /\ rec[last].exists => rec[c].result = rec[last].result

\* A chain whose last child is a group has finished: it holds the group's
\* result, the sequence of the results of the group's two children.
C15_Witness ==
  \E c \in Chains :
    /\ FinishingOf(c) # {}
    /\ Kind(Last(Children(c))) = "group"
    /\ rec[c].result = JSONstringify(JSArr(<<JSStr("a"), JSNum("0")>>))
    /\ rec[Last(Children(c))].result = rec[c].result
    /\ rec[c].progress = tree.total[c]

\* --------------------------------------------------------------------- C16
\* The template has no children: before init() has returned, none came from
\* the constructor and init() will supply none (no array, or an empty one);
\* afterwards, the list prepare() settled on is empty.
ZeroChildren ==
  /\ prep.kind \in {"chain", "group"}
  /\ prep.children_to_init = <<>>
  /\ prep.phase \in {"constructed", "init"} =>
       (prep.init = Unset \/ prep.init = Set(<<>>))

\* C16: preparing a chain or group that has no children rejects with the
\* configuration error of its kind; `children`, `children_finished` and `total`
\* are never assigned, and no record is persisted or put in `waiting`.
C16_ZeroChildrenRejected ==
  ZeroChildren =>
    /\ prep.children = Unset /\ prep.children_finished = Unset /\ prep.total = Unset
    /\ prep.phase \in {"constructed", "init", "rejected"}
    /\ prep.phase = "rejected" => prep.error = ConfigurationError(prep.kind)
    /\ \A t \in Tasks : ~rec[t].exists
    /\ waiting = {}

\* prepare() has rejected a group that was given no children.
C16_Witness ==
  /\ ZeroChildren
  /\ prep.kind = "group"
  /\ prep.phase = "rejected"
  /\ prep.init = Unset

\* --------------------------------------------------------------------- C17
\* the transactions of group g that processed a `result` command
Counted(g) == {i \in DOMAIN log[g] : log[g][i].command.type = "result"}

\* C17: no increment of a group's counter is lost, however the `result`
\* commands of its children are interleaved: the persisted `children_finished`
\* is always the number of `result` transactions that succeeded; once there
\* has been one for each of the N children and until the group finishes, the
\* counter is N, the group is `idle` and a `group_check` addressed to it is
\* waiting to be handled; and the transaction that makes the count N leaves
\* that `group_check` in the `commands` of the group's pool.
C17_NoLostIncrement ==
  /\ [](\A g \in Groups :
         rec[g].exists =>
           /\ rec[g].children_finished = Cardinality(Counted(g))
           /\ (Reported(g) = Range(Children(g)) /\ FinishingOf(g) = {}) =>
                /\ rec[g].children_finished = Len(Children(g))
                /\ Is(g, "idle")
                /\ GroupCheck(g) \in commands[tree.pool[g]]
                                       \cup commands_locked[tree.pool[g]])
  /\ [][\A g \in Groups :
         (Commits(g, "result") /\ Cardinality(Counted(g))' = Len(Children(g))) =>
           /\ rec'[g].children_finished = Len(Children(g))
           /\ rec'[g].state = JSONstringify(JSStr("idle"))
           /\ GroupCheck(g) \in commands'[tree.pool[g]]]_vars

\* Both results of a group of two have been counted.  The `group_check` sent
\* with the first was delivered early, skipped and left locked; the one sent
\* with the second is pending, so the check will run on the counter at N.
C17_Witness ==
  \E g \in Groups :
    /\ Len(Children(g)) = 2
    /\ Reported(g) = Range(Children(g))
    /\ rec[g].children_finished = 2
    /\ Is(g, "idle")
    /\ GroupCheck(g) \in commands[tree.pool[g]]
    /\ GroupCheck(g) \in commands_locked[tree.pool[g]]

\* --------------------------------------------------------------------- C18
\* the global sets that hold the id of task t
SetsHolding(t) ==
  (IF t \in waiting THEN {"waiting"} ELSE {})
    \cup (IF t \in idle THEN {"idle"} ELSE {})
    \cup (IF t \in finished THEN {"finished"} ELSE {})

\* the state the record of task t holds, as a set: empty when it holds none
StateHeld(t) ==
  {st \in {"waiting", "idle", "finished"} : rec[t].state = JSONstringify(JSStr(st))}

\* C18: the id of a composite whose record holds a state is in exactly one of
\* `waiting`, `idle`, `finished`, the one its `state` field names; and a
\* transaction that changes the state moves the id between the sets itself.
\* (A record that was deleted holds no state; neither does one that a chain
\* brought back by writing `args` to a child deleted under its hands.)
C18_SetMatchesState ==
  /\ [](\A c \in Composites :
         rec[c].state # NIL =>
           /\ Cardinality(SetsHolding(c)) = 1
           /\ SetsHolding(c) = StateHeld(c))
  /\ [][\A c \in Composites :
         (rec'[c].state # rec[c].state /\ rec'[c].state # NIL) =>
           /\ SetsHolding(c)' = StateHeld(c)'
           /\ SetsHolding(c)' # SetsHolding(c)
           /\ Len(log'[c]) = Len(log[c]) + 1]_vars

\* A chain is `idle` and in the idle set only, while a group nested in the
\* tree is `finished` and in the finished set only.
C18_Witness ==
  \E c \in Chains : \E g \in Groups :
    /\ SetsHolding(c) = {"idle"} /\ Is(c, "idle")
    /\ SetsHolding(g) = {"finished"} /\ Is(g, "finished")

\* --------------------------------------------------------------------- C20
\* the writes of transaction tx that enqueue a command addressed to task p
UpwardWrites(tx, p) ==
  {k \in DOMAIN tx.exec :
     tx.exec[k].cmd = "zadd" /\ tx.exec[k].key \in Pools /\ tx.exec[k].val.to = p}

\* all such writes over the transactions of composite c, as <<transaction, write>>
AllUpward(c) ==
  UNION {{<<i, k>> : k \in UpwardWrites(log[c][i], tree.parent[c])} : i \in DOMAIN log[c]}

\* C20: a composite that has a parent enqueues a command for it only in its
\* finishing transaction, and there exactly once: never more than one upward
\* command over its lifetime, exactly one once it has finished, of type
\* `result` or `error`; and the parent counts no composite child more than once.
C20_OneUpwardCommand ==
  \A c \in Composites :
    tree.parent[c] # NoTask =>
      /\ \A e \in AllUpward(c) :
           /\ Finishing(log[c][e[1]])
           /\ log[c][e[1]].exec[e[2]].val.type \in {"result", "error"}
           /\ log[c][e[1]].exec[e[2]].key = tree.pool[tree.parent[c]]
      /\ Cardinality(AllUpward(c)) = (IF FinishingOf(c) = {} THEN 0 ELSE 1)
      /\ Cardinality({j \in DOMAIN log[tree.parent[c]] :
                        /\ log[tree.parent[c]][j].command.type = "result"
                        /\ log[tree.parent[c]][j].command.id = c}) <= 1

\* A nested composite has finished and sent its one `result`, and its parent
\* has counted it.
C20_Witness ==
  \E c \in Composites :
    /\ tree.parent[c] # NoTask
    /\ Cardinality(AllUpward(c)) = 1
    /\ SentUp(c, "result") # {}
    /\ c \in Reported(tree.parent[c])
    /\ rec[tree.parent[c]].children_finished >= 1

\* --------------------------------------------------------------------- C19
\* C19: in a run with no deletion where every activated leaf runs and workers
\* fairly handle what is pending, the root, once sent `activate`, and every
\* composite nested in it eventually reach `finished`, and stay there.
C19_EventuallyFinished ==
  <>[](\A c \in Composites : Is(c, "finished") /\ c \in finished)

\* Every composite of a nested tree has finished.
C19_Witness ==
  /\ Cardinality(Composites) = 2
  /\ \A c \in Composites : Is(c, "finished") /\ c \in finished /\ events[c] = 1
  /\ deletes = 0

====
